---- MODULE Spec2Model ----
(***************************************************************************)
(* Hansen-Law inverse Abel transform (abel/hansenlaw.py).                  *)
(*                                                                         *)
(*   iabel_hansenlaw_transform : the recursion applied to one image row    *)
(*   iabel_hansenlaw           : quadrant split, co-add or independent     *)
(*                               mode, ordered parallel map over a worker  *)
(*                               pool, reassembly, speed distribution      *)
(*                                                                         *)
(* Floating point numbers are modelled in fixed point: a real x is the     *)
(* integer round(x * Scale).  Arrays are 1-indexed here, 0-indexed in the  *)
(* source; the loop index n keeps the source's 0-based value.              *)
(***************************************************************************)
EXTENDS Integers, Sequences, FiniteSets, TLC

VARIABLES
    coef,       \* pow(Nm, lam[k]) and Gamma(Nm, lam[k]) at the ratios the loop visits
    \* --- one call of iabel_hansenlaw_transform, statement by statement
    rpc,        \* position: "idle", "start", "loop", "k", "neg", "ret", "error"
    ImgRow,     \* the argument
    N,          \* np.size(ImgRow)
    X,          \* the K accumulators
    AImgRow,    \* the output row being filled
    gp,         \* np.gradient(ImgRow)
    n,          \* outer loop index, 0-based
    k,          \* inner loop index, 0-based
    Nm,         \* <<N-n, N-n-1>>
    br,         \* the branch Gamma took in the last inner step: "none", "div", "log"
    rout,       \* the returned row
    \* --- one call of iabel_hansenlaw
    pc,         \* position: "idle", "entry", "split", "select", "map", "reform",
                \*           "speeds", "done", "error"
    data,       \* the image, [nr, nc, a]: a is the sequence of its rows
    quad,       \* the quadrant selector, four booleans
    calc_speeds,
    processes,  \* mp.cpu_count() - freecpus
    pool,       \* "none" before mp.Pool(...), "open" after it; no statement closes it
    created,    \* number of pools created by the call
    err,        \* the exception that ended the call, "" when none
    Q0, Q1, Q2, Q3,  \* the reoriented quadrants
    Q,          \* the co-added quadrant
    cur,        \* the quadrant pool.map is working on: "Q", "Q0" .. "Q3", "" when none
    tasks,      \* the rows handed to pool.map
    pending,    \* indices of the rows no worker has taken yet
    running,    \* running[w]: the row worker w is transforming, 0 when idle
    completed,  \* results in the order the workers finished: [i, r]
    mapped,     \* every row list handed to pool.map so far
    AQ0, AQ1, AQ2, AQ3,  \* the transformed quadrants, lists of rows
    recon,      \* the reassembled image
    speeds,     \* the call of calculate_speeds: [called, img, n]
    ret         \* the returned value: [pair, recon]

\* ------------------------------------------------------------------ bounds
MaxLen == 4      \* longest row given to the row transform (SpecRow)
PixMax == 2      \* largest pixel value of those rows
MaxRows == 6     \* most image rows (Spec, SpecRT)
MaxCols == 5     \* most image columns
MaxPat == 2      \* pixel patterns 0..MaxPat per image shape (Spec)
MaxProc == 2     \* largest value of mp.cpu_count() - freecpus
MaxCells == 8    \* images of up to MaxCells pixels take every 0/1 content (SpecRT)

\* ------------------------------------------------------- fixed-point reals
Scale == 1000

Abs(a) == IF a < 0 THEN -a ELSE a

Sgn(a) == IF a < 0 THEN -1 ELSE 1

\* a / b rounded to the nearest integer, b # 0
RDiv(a, b) ==
    LET q == Abs(a) \div Abs(b)
        r == Abs(a) % Abs(b)
    IN  Sgn(a) * Sgn(b) * (IF r >= Abs(b) - r THEN q + 1 ELSE q)

\* product of two fixed-point numbers
FMul(a, b) == RDiv(a * b, Scale)

\* x^e for a fixed-point x in [0, 1] and a natural e, by squaring: acc holds
\* the product of the powers of x for the bits of e already seen.
RECURSIVE PowAcc(_, _, _)
PowAcc(b, e, acc) ==
    IF e = 0 \/ acc = 0 THEN acc
    ELSE IF b = 0 THEN 0
    ELSE PowAcc(FMul(b, b), e \div 2, IF e % 2 = 1 THEN FMul(acc, b) ELSE acc)

FPowInt(x, e) == PowAcc(x, e, Scale)

\* the tenth root of the fixed-point t in [0, 1]
RECURSIVE Bisect(_, _, _)
Bisect(lo, hi, t) ==
    IF lo = hi THEN lo
    ELSE LET mid == (lo + hi + 1) \div 2
         IN  IF FPowInt(mid, 10) <= t THEN Bisect(mid, hi, t)
             ELSE Bisect(lo, mid - 1, t)

\* the largest r in [0, 1] with r^10 <= t
Root10(t) == Bisect(0, Scale, t)

\* ------------------------------------------------- the coefficient tables
\* h[k], in units of 1/Scale
h == <<318, 190, 350, 820, 1800, 3900, 8300, 19600, 48300>>

\* lam[k], in units of 1/10
lam == <<0, -21, -62, -224, -925, -4145, -18894, -89909, -473911>>

\* math.pi, in units of 1/Scale
pi == 3142

K == Len(h)

\* pow(Nm, lam) for the ratio r = <<num, den>> >= 1 and lam <= 0 in tenths:
\* ((den/num)^(1/10))^(-lam).
pow(r, l) ==
    IF l = 0 THEN Scale
    ELSE FPowInt(Root10(RDiv(r[2] * Scale, r[1])), -l)

\* np.log(Nm), by log(x) = 2 atanh((x-1)/(x+1)), four terms of the series
log(r) ==
    LET z  == RDiv((r[1] - r[2]) * Scale, r[1] + r[2])
        z2 == FMul(z, z)
        z3 == FMul(z2, z)
        z5 == FMul(z3, z2)
        z7 == FMul(z5, z2)
    IN  2 * (z + RDiv(z3, 3) + RDiv(z5, 5) + RDiv(z7, 7))

\* The branch of Gamma taken for lam (Eq. 18).
GammaBranch(l) == IF l < -10 THEN "div" ELSE "log"

\* The divisor pi*lam of the first branch, in units of 1/(10*Scale).
GammaDivisor(l) == pi * l

Gamma(r, l) ==
    IF GammaBranch(l) = "div"
    THEN RDiv((Scale - pow(r, l)) * 10 * Scale, GammaDivisor(l))
    ELSE -RDiv(log(r) * Scale, pi)


\* pow(Nm, lam[k]) and Gamma(Nm, lam[k]) at the ratios Nm = m/(m-1) the loop
\* visits, evaluated once and kept in coef: row m-1 holds the K values for the
\* numerator m.
RECURSIVE PowRow(_, _)
PowRow(m, kk) ==
    IF kk = 0 THEN <<>>
    ELSE Append(PowRow(m, kk - 1), pow(<<m, m - 1>>, lam[kk]))

RECURSIVE GammaRow(_, _)
GammaRow(m, kk) ==
    IF kk = 0 THEN <<>>
    ELSE Append(GammaRow(m, kk - 1), Gamma(<<m, m - 1>>, lam[kk]))

RECURSIVE PowRows(_)
PowRows(m) == IF m < 2 THEN <<>> ELSE Append(PowRows(m - 1), PowRow(m, K))

RECURSIVE GammaRows(_)
GammaRows(m) == IF m < 2 THEN <<>> ELSE Append(GammaRows(m - 1), GammaRow(m, K))

MaxNum == IF MaxLen > MaxCols THEN MaxLen ELSE MaxCols

CoefTable == [p |-> PowRows(MaxNum), g |-> GammaRows(MaxNum)]

\* ---------------------------------------------- iabel_hansenlaw_transform
RECURSIVE SumSeq(_)
SumSeq(s) == IF s = <<>> THEN 0 ELSE Head(s) + SumSeq(Tail(s))

Zeros(len) == [i \in 1..len |-> 0]

\* Faulty variant of XInit: the accumulators start at one.
XInitOnes == [i \in 1..K |-> Scale]

\* X = np.zeros(K)
XInit == Zeros(K)

\* np.gradient(ImgRow) for a row of two or more samples, unit spacing:
\* one-sided differences at both ends, central differences inside.
gradient(row) ==
    LET len == Len(row)
    IN  [i \in 1..len |->
            IF i = 1 THEN (row[2] - row[1]) * Scale
            ELSE IF i = len THEN (row[len] - row[len - 1]) * Scale
            ELSE ((row[i + 1] - row[i - 1]) * Scale) \div 2]

\* Faulty variant of LoopBound: range(N), the loop also runs for n = N-1.
LoopBoundFull(len) == len

\* range(N-1): the loop runs for n = 0 .. N-2
LoopBound(len) == len - 1

\* Nm = (N-n)/(N-n-1.0), kept as <<numerator, denominator>>
Ratio(len, i) == <<len - i, len - i - 1>>

\* Eq. (17) for accumulator kk (1-based) at the ratio Nm and gradient g
XUpdate(x, kk, ratio, g) ==
    FMul(coef.p[ratio[2]][kk], x)
        + FMul(FMul(h[kk], coef.g[ratio[2]][kk]), g)

\* Faulty variant of Boundary: the last element is left as the loop left it.
BoundaryNone(a) == a

\* AImgRow[N-1] = AImgRow[N-2]
Boundary(a) == [a EXCEPT ![Len(a)] = a[Len(a) - 1]]

\* return -AImgRow
Negate(a) == [i \in 1..Len(a) |-> -a[i]]

\* The loop of lines 48-52 from index i on, as a function of the state.
RECURSIVE RowLoop(_, _, _, _, _)
RowLoop(len, g, i, x, a) ==
    IF i >= LoopBound(len) THEN a
    ELSE LET x2 == [kk \in 1..K |-> XUpdate(x[kk], kk, Ratio(len, i), g[i + 1])]
         IN  RowLoop(len, g, i + 1, x2, [a EXCEPT ![i + 1] = SumSeq(x2)])

\* The whole function on one row: ok is FALSE when np.gradient raises
\* (fewer than two samples).
iabel_hansenlaw_transform(row) ==
    IF Len(row) < 2 THEN [ok |-> FALSE, val |-> <<>>]
    ELSE [ok |-> TRUE,
          val |-> Negate(Boundary(
                    RowLoop(Len(row), gradient(row), 0, XInit, Zeros(Len(row)))))]


\* ------------------------------------------------------------- 2-D arrays
\* An array is [nr, nc, a]: nr rows, nc columns, a the sequence of rows.
Arr(rows, cols) == [nr |-> Len(rows), nc |-> cols, a |-> rows]

EmptyArr == Arr(<<>>, 0)

shape(A) == <<A.nr, A.nc>>

Reverse(s) == [i \in 1..Len(s) |-> s[Len(s) + 1 - i]]

\* np.array_split(A, 2, axis=1): the first section takes the extra column
SplitCols(A) ==
    LET c1 == (A.nc + 1) \div 2
    IN  <<Arr([i \in 1..A.nr |-> SubSeq(A.a[i], 1, c1)], c1),
          Arr([i \in 1..A.nr |-> SubSeq(A.a[i], c1 + 1, A.nc)], A.nc - c1)>>

\* np.array_split(A, 2, axis=0): the first section takes the extra row
SplitRows(A) ==
    LET r1 == (A.nr + 1) \div 2
    IN  <<Arr(SubSeq(A.a, 1, r1), A.nc), Arr(SubSeq(A.a, r1 + 1, A.nr), A.nc)>>

fliplr(A) == Arr([i \in 1..A.nr |-> Reverse(A.a[i])], A.nc)

flipud(A) == Arr(Reverse(A.a), A.nc)

\* A * b for a boolean b
Times(A, b) ==
    Arr([i \in 1..A.nr |-> [j \in 1..A.nc |-> A.a[i][j] * (IF b THEN 1 ELSE 0)]],
        A.nc)

\* numpy broadcasting of two dimensions: equal, or one of them 1
Compat(x, y) == x = y \/ x = 1 \/ y = 1

BDim(x, y) == IF x = 1 THEN y ELSE x

BroadcastOK(A, B) == Compat(A.nr, B.nr) /\ Compat(A.nc, B.nc)

\* A + B with broadcasting
Plus(A, B) ==
    LET rows == BDim(A.nr, B.nr)
        cols == BDim(A.nc, B.nc)
    IN  Arr([i \in 1..rows |-> [j \in 1..cols |->
                A.a[IF A.nr = 1 THEN 1 ELSE i][IF A.nc = 1 THEN 1 ELSE j]
              + B.a[IF B.nr = 1 THEN 1 ELSE i][IF B.nc = 1 THEN 1 ELSE j]]],
            cols)

\* np.concatenate((A, B), axis=1)
ConcatCols(A, B) == Arr([i \in 1..A.nr |-> A.a[i] \o B.a[i]], A.nc + B.nc)

\* np.concatenate((A, B), axis=0)
ConcatRows(A, B) == Arr(A.a \o B.a, A.nc)

\* np.asarray of a non-empty list of equally long rows
ToArr(rows) == Arr(rows, Len(rows[1]))

\* ------------------------------------------------------- iabel_hansenlaw
any(qd) == \E i \in 1..4 : qd[i]

\* N2 = N//2
N2 == data.nr \div 2

\* lines 76-81: <<Q0, Q1, Q2, Q3>>
Quadrants(img) ==
    LET lr    == SplitCols(img)
        right == SplitRows(lr[2])
        left  == SplitRows(lr[1])
    IN  <<fliplr(right[1]), left[1], flipud(left[2]), fliplr(flipud(right[2]))>>

\* Q0*quad[0] + Q1*quad[1] + Q2*quad[2] + Q3*quad[3], left to right;
\* ok is FALSE when two operands cannot be broadcast together.
CoAddSum(a, b, c, d, qd) ==
    LET t0 == Times(a, qd[1])
        t1 == Times(b, qd[2])
        t2 == Times(c, qd[3])
        t3 == Times(d, qd[4])
        Fail == [ok |-> FALSE, val |-> EmptyArr]
    IN  IF ~BroadcastOK(t0, t1) THEN Fail
        ELSE LET s1 == Plus(t0, t1)
             IN  IF ~BroadcastOK(s1, t2) THEN Fail
                 ELSE LET s2 == Plus(s1, t2)
                      IN  IF ~BroadcastOK(s2, t3) THEN Fail
                          ELSE [ok |-> TRUE, val |-> Plus(s2, t3)]

\* Faulty variant of CoAdd: every quadrant is added, selected or not.
CoAddAll(a, b, c, d, qd) == CoAddSum(a, b, c, d, <<TRUE, TRUE, TRUE, TRUE>>)

CoAdd(a, b, c, d, qd) == CoAddSum(a, b, c, d, qd)

\* Faulty variant of TaskRows: every row of the quadrant, not the first cnt.
TaskRowsAll(A, cnt) == A.a

\* [Q[row] for row in range(cnt)]
TaskRows(A, cnt) == [i \in 1..cnt |-> A.a[i]]

\* Faulty variant of Collect: the results in the order they were completed.
CollectByCompletion(done, cnt) == [i \in 1..cnt |-> done[i].r]

\* pool.map returns the results in the order of its input: result i is the
\* one computed from row i, whenever it was completed.
Collect(done, cnt) ==
    [i \in 1..cnt |-> (CHOOSE c \in {done[j] : j \in 1..Len(done)} : c.i = i).r]

AllOk(res) == \A i \in 1..Len(res) : res[i].ok

Vals(res) == [i \in 1..Len(res) |-> res[i].val]

\* lines 107-109; ok is FALSE when numpy raises (np.fliplr of an empty list,
\* np.concatenate of arrays whose other dimension differs).
ReformOK(a0, a1, a2, a3) ==
    /\ a0 # <<>> /\ a1 # <<>> /\ a2 # <<>> /\ a3 # <<>>
    /\ Len(a1) = Len(a0)
    /\ Len(a2) = Len(a3)
    /\ Len(a1[1]) + Len(a0[1]) = Len(a2[1]) + Len(a3[1])

\* Faulty variant of Reform: AQ0 and AQ3 are not mirrored back.
ReformNoFlip(a0, a1, a2, a3) ==
    LET Top    == ConcatCols(ToArr(a1), ToArr(a0))
        Bottom == flipud(ConcatCols(ToArr(a2), ToArr(a3)))
    IN  ConcatRows(Top, Bottom)

\* Faulty variant of Reform: the bottom half is left out.
ReformTopOnly(a0, a1, a2, a3) == ConcatCols(ToArr(a1), fliplr(ToArr(a0)))

Reform(a0, a1, a2, a3) ==
    LET Top    == ConcatCols(ToArr(a1), fliplr(ToArr(a0)))
        Bottom == flipud(ConcatCols(ToArr(a2), fliplr(ToArr(a3))))
    IN  ConcatRows(Top, Bottom)

\* Faulty variant of SpeedsSize: the quadrant half-size N2.
SpeedsSizeHalf(img) == img.nr \div 2

\* line 118: the size handed to calculate_speeds, N
SpeedsSize(img) == img.nr

NoCall == [called |-> FALSE, img |-> EmptyArr, n |-> 0]

NoRet == [pair |-> FALSE, recon |-> EmptyArr]

mvars == <<pc, data, quad, calc_speeds, processes, pool, created, err,
           Q0, Q1, Q2, Q3, Q, cur, tasks, pending, running, completed, mapped,
           AQ0, AQ1, AQ2, AQ3, recon, speeds, ret>>

MainIdle ==
    /\ pc = "idle" /\ data = EmptyArr /\ quad = <<FALSE, FALSE, FALSE, FALSE>>
    /\ calc_speeds = FALSE /\ processes = 0 /\ pool = "none" /\ created = 0
    /\ err = "" /\ Q0 = EmptyArr /\ Q1 = EmptyArr /\ Q2 = EmptyArr
    /\ Q3 = EmptyArr /\ Q = EmptyArr /\ cur = "" /\ tasks = <<>>
    /\ pending = {} /\ running = <<>> /\ completed = <<>> /\ mapped = <<>>
    /\ AQ0 = <<>> /\ AQ1 = <<>> /\ AQ2 = <<>> /\ AQ3 = <<>>
    /\ recon = EmptyArr /\ speeds = NoCall /\ ret = NoRet

\* ------------------------ iabel_hansenlaw_transform as a sequence of steps
rvars == <<rpc, ImgRow, N, X, AImgRow, gp, n, k, Nm, br, rout>>

RowIdle ==
    /\ rpc = "idle" /\ ImgRow = <<>> /\ N = 0 /\ X = XInit /\ AImgRow = <<>>
    /\ gp = <<>> /\ n = 0 /\ k = 0 /\ Nm = <<1, 1>> /\ br = "none" /\ rout = <<>>

\* lines 44-47: sizes, zeroed arrays, gradient.  np.gradient raises on a row
\* of fewer than two samples.
RSetup ==
    /\ rpc = "start"
    /\ N' = Len(ImgRow)
    /\ X' = XInit
    /\ AImgRow' = Zeros(Len(ImgRow))
    /\ IF Len(ImgRow) < 2
       THEN rpc' = "error" /\ gp' = gp
       ELSE rpc' = "loop" /\ gp' = gradient(ImgRow)
    /\ n' = 0
    /\ UNCHANGED <<coef, mvars, ImgRow, k, Nm, br, rout>>

\* lines 48-49: next n of range(N-1), and the ratio Nm; the float division
\* raises ZeroDivisionError on a zero denominator.
RLoopHead ==
    /\ rpc = "loop"
    /\ n < LoopBound(N)
    /\ Nm' = Ratio(N, n)
    /\ rpc' = IF Ratio(N, n)[2] = 0 THEN "error" ELSE "k"
    /\ k' = 0
    /\ UNCHANGED <<coef, mvars, ImgRow, N, X, AImgRow, gp, n, br, rout>>

\* lines 50-51: one accumulator update
RXStep ==
    /\ rpc = "k"
    /\ k < K
    /\ X' = [X EXCEPT ![k + 1] = XUpdate(X[k + 1], k + 1, Nm, gp[n + 1])]
    /\ br' = GammaBranch(lam[k + 1])
    /\ k' = k + 1
    /\ UNCHANGED <<coef, mvars, rpc, ImgRow, N, AImgRow, gp, n, Nm, rout>>

\* line 52: AImgRow[n] = X.sum()
RSum ==
    /\ rpc = "k"
    /\ k = K
    /\ AImgRow' = [AImgRow EXCEPT ![n + 1] = SumSeq(X)]
    /\ n' = n + 1
    /\ rpc' = "loop"
    /\ UNCHANGED <<coef, mvars, ImgRow, N, X, gp, k, Nm, br, rout>>

\* line 54, after the loop
RBoundary ==
    /\ rpc = "loop"
    /\ n >= LoopBound(N)
    /\ AImgRow' = Boundary(AImgRow)
    /\ rpc' = "neg"
    /\ UNCHANGED <<coef, mvars, ImgRow, N, X, gp, n, k, Nm, br, rout>>

\* line 55
RReturn ==
    /\ rpc = "neg"
    /\ rout' = Negate(AImgRow)
    /\ rpc' = "ret"
    /\ UNCHANGED <<coef, mvars, ImgRow, N, X, AImgRow, gp, n, k, Nm, br>>

RowNext == RSetup \/ RLoopHead \/ RXStep \/ RSum \/ RBoundary \/ RReturn

\* Rows of 1..MaxLen pixels in 0..PixMax
RowInputs == UNION {[1..len -> 0..PixMax] : len \in 1..MaxLen}

RowInit ==
    /\ coef = CoefTable
    /\ rpc = "start"
    /\ ImgRow \in RowInputs
    /\ N = 0 /\ X = XInit /\ AImgRow = <<>> /\ gp = <<>> /\ n = 0 /\ k = 0
    /\ Nm = <<1, 1>> /\ br = "none" /\ rout = <<>>
    /\ MainIdle

vars == <<coef, rvars, mvars>>

SpecRow == RowInit /\ [][RowNext]_vars


\* ------------------------------------- iabel_hansenlaw as a sequence of steps
rowAll == <<coef, rvars>>

\* The start of one pool.map call on rows: nothing taken, every worker idle.
StartMap(rows, name) ==
    /\ tasks' = rows
    /\ pending' = 1..Len(rows)
    /\ running' = [w \in 1..processes |-> 0]
    /\ completed' = <<>>
    /\ mapped' = Append(mapped, rows)
    /\ cur' = name

MapDone == pending = {} /\ \A w \in 1..processes : running[w] = 0

\* line 67: mp.Pool(processes=...) raises ValueError for fewer than one process
CreatePool ==
    /\ pc = "entry"
    /\ IF processes < 1
       THEN pc' = "error" /\ err' = "ValueError" /\ UNCHANGED <<pool, created>>
       ELSE pc' = "split" /\ pool' = "open" /\ created' = created + 1 /\ err' = err
    /\ UNCHANGED <<rowAll, data, quad, calc_speeds, processes, Q0, Q1, Q2, Q3, Q,
                   cur, tasks, pending, running, completed, mapped,
                   AQ0, AQ1, AQ2, AQ3, recon, speeds, ret>>

\* lines 69-81
Split ==
    /\ pc = "split"
    /\ Q0' = Quadrants(data)[1]
    /\ Q1' = Quadrants(data)[2]
    /\ Q2' = Quadrants(data)[3]
    /\ Q3' = Quadrants(data)[4]
    /\ pc' = "select"
    /\ UNCHANGED <<rowAll, data, quad, calc_speeds, processes, pool, created, err,
                   Q, cur, tasks, pending, running, completed, mapped,
                   AQ0, AQ1, AQ2, AQ3, recon, speeds, ret>>

\* lines 84-92: co-add the quadrants and hand the rows of Q to the pool
CoAddSubmit ==
    /\ pc = "select"
    /\ any(quad)
    /\ LET sum == CoAdd(Q0, Q1, Q2, Q3, quad)
       IN  IF ~sum.ok
           THEN /\ pc' = "error" /\ err' = "ValueError"
                /\ UNCHANGED <<Q, cur, tasks, pending, running, completed, mapped>>
           ELSE IF N2 > sum.val.nr
           THEN /\ pc' = "error" /\ err' = "IndexError" /\ Q' = sum.val
                /\ UNCHANGED <<cur, tasks, pending, running, completed, mapped>>
           ELSE /\ pc' = "map" /\ err' = err /\ Q' = sum.val
                /\ StartMap(TaskRows(sum.val, N2), "Q")
    /\ UNCHANGED <<rowAll, data, quad, calc_speeds, processes, pool, created,
                   Q0, Q1, Q2, Q3, AQ0, AQ1, AQ2, AQ3, recon, speeds, ret>>

\* lines 96-101: no quadrant selected, the rows of Q0 go to the pool first
IndepSubmit ==
    /\ pc = "select"
    /\ ~any(quad)
    /\ pc' = "map"
    /\ StartMap(TaskRows(Q0, N2), "Q0")
    /\ UNCHANGED <<rowAll, data, quad, calc_speeds, processes, pool, created, err,
                   Q0, Q1, Q2, Q3, Q, AQ0, AQ1, AQ2, AQ3, recon, speeds, ret>>

\* inside pool.map: an idle worker takes any row not yet taken
Dispatch(w, i) ==
    /\ pc = "map"
    /\ running[w] = 0
    /\ i \in pending
    /\ running' = [running EXCEPT ![w] = i]
    /\ pending' = pending \ {i}
    /\ UNCHANGED <<rowAll, pc, data, quad, calc_speeds, processes, pool, created, err,
                   Q0, Q1, Q2, Q3, Q, cur, tasks, completed, mapped,
                   AQ0, AQ1, AQ2, AQ3, recon, speeds, ret>>

\* inside pool.map: a worker finishes its row and hands back the result
Finish(w) ==
    /\ pc = "map"
    /\ running[w] # 0
    /\ completed' = Append(completed,
                       [i |-> running[w],
                        r |-> iabel_hansenlaw_transform(tasks[running[w]])])
    /\ running' = [running EXCEPT ![w] = 0]
    /\ UNCHANGED <<rowAll, pc, data, quad, calc_speeds, processes, pool, created, err,
                   Q0, Q1, Q2, Q3, Q, cur, tasks, pending, mapped,
                   AQ0, AQ1, AQ2, AQ3, recon, speeds, ret>>

\* pool.map re-raises in the caller the exception a row raised in a worker
MapRaise ==
    /\ pc = "map"
    /\ MapDone
    /\ ~AllOk(Collect(completed, Len(tasks)))
    /\ pc' = "error"
    /\ err' = "ValueError"
    /\ UNCHANGED <<rowAll, data, quad, calc_speeds, processes, pool, created,
                   Q0, Q1, Q2, Q3, Q, cur, tasks, pending, running, completed, mapped,
                   AQ0, AQ1, AQ2, AQ3, recon, speeds, ret>>

\* lines 92-94: AQ0 = pool.map(...); AQ3 = AQ2 = AQ1 = AQ0
MapReturnCoAdd ==
    /\ pc = "map"
    /\ cur = "Q"
    /\ MapDone
    /\ AllOk(Collect(completed, Len(tasks)))
    /\ AQ0' = Vals(Collect(completed, Len(tasks)))
    /\ AQ1' = AQ0'
    /\ AQ2' = AQ0'
    /\ AQ3' = AQ0'
    /\ pc' = "reform"
    /\ UNCHANGED <<rowAll, data, quad, calc_speeds, processes, pool, created, err,
                   Q0, Q1, Q2, Q3, Q, cur, tasks, pending, running, completed, mapped,
                   recon, speeds, ret>>

\* lines 101-104: one quadrant's pool.map returns, the next one starts
MapReturnIndep ==
    /\ pc = "map"
    /\ cur \in {"Q0", "Q1", "Q2", "Q3"}
    /\ MapDone
    /\ AllOk(Collect(completed, Len(tasks)))
    /\ LET res == Vals(Collect(completed, Len(tasks)))
       IN  /\ AQ0' = IF cur = "Q0" THEN res ELSE AQ0
           /\ AQ1' = IF cur = "Q1" THEN res ELSE AQ1
           /\ AQ2' = IF cur = "Q2" THEN res ELSE AQ2
           /\ AQ3' = IF cur = "Q3" THEN res ELSE AQ3
    /\ IF cur = "Q0" THEN pc' = pc /\ StartMap(TaskRows(Q1, N2), "Q1")
       ELSE IF cur = "Q1" THEN pc' = pc /\ StartMap(TaskRows(Q2, N2), "Q2")
       ELSE IF cur = "Q2" THEN pc' = pc /\ StartMap(TaskRows(Q3, N2), "Q3")
       ELSE /\ pc' = "reform"
            /\ UNCHANGED <<cur, tasks, pending, running, completed, mapped>>
    /\ UNCHANGED <<rowAll, data, quad, calc_speeds, processes, pool, created, err,
                   Q0, Q1, Q2, Q3, Q, recon, speeds, ret>>

\* lines 107-109
ReformImage ==
    /\ pc = "reform"
    /\ IF ReformOK(AQ0, AQ1, AQ2, AQ3)
       THEN pc' = "speeds" /\ recon' = Reform(AQ0, AQ1, AQ2, AQ3) /\ err' = err
       ELSE pc' = "error" /\ recon' = recon /\ err' = "ValueError"
    /\ UNCHANGED <<rowAll, data, quad, calc_speeds, processes, pool, created,
                   Q0, Q1, Q2, Q3, Q, cur, tasks, pending, running, completed, mapped,
                   AQ0, AQ1, AQ2, AQ3, speeds, ret>>

\* lines 113-123: the pool is not closed, terminated or joined on any path
Return ==
    /\ pc = "speeds"
    /\ IF calc_speeds
       THEN /\ speeds' = [called |-> TRUE, img |-> recon, n |-> SpeedsSize(data)]
            /\ ret' = [pair |-> TRUE, recon |-> recon]
       ELSE /\ speeds' = speeds
            /\ ret' = [pair |-> FALSE, recon |-> recon]
    /\ pc' = "done"
    /\ UNCHANGED <<rowAll, data, quad, calc_speeds, processes, pool, created, err,
                   Q0, Q1, Q2, Q3, Q, cur, tasks, pending, running, completed, mapped,
                   AQ0, AQ1, AQ2, AQ3, recon>>

Next ==
    \/ CreatePool
    \/ Split
    \/ CoAddSubmit
    \/ IndepSubmit
    \/ \E w \in 1..processes : \E i \in pending : Dispatch(w, i)
    \/ \E w \in 1..processes : Finish(w)
    \/ MapRaise
    \/ MapReturnCoAdd
    \/ MapReturnIndep
    \/ ReformImage
    \/ Return

\* Pixel (i, j) of the nr x nc image with pattern p: 0 all zeros, 1 every
\* pixel its own row-major index, p >= 2 a single 1 at row-major cell p-1.
Pixel(nr, nc, p, i, j) ==
    IF p = 0 THEN 0
    ELSE IF p = 1 THEN (i - 1) * nc + j
    ELSE IF (i - 1) * nc + j = p - 1 THEN 1 ELSE 0

Image(nr, nc, p) ==
    Arr([i \in 1..nr |-> [j \in 1..nc |-> Pixel(nr, nc, p, i, j)]], nc)

Min(a, b) == IF a < b THEN a ELSE b

MainStart(first) ==
    /\ pc = first /\ created = 0 /\ pool = "none" /\ err = ""
    /\ Q0 = EmptyArr /\ Q1 = EmptyArr /\ Q2 = EmptyArr
    /\ Q3 = EmptyArr /\ Q = EmptyArr /\ cur = "" /\ tasks = <<>>
    /\ pending = {} /\ running = <<>> /\ completed = <<>> /\ mapped = <<>>
    /\ AQ0 = <<>> /\ AQ1 = <<>> /\ AQ2 = <<>> /\ AQ3 = <<>>
    /\ recon = EmptyArr /\ speeds = NoCall /\ ret = NoRet

Init ==
    /\ coef = CoefTable
    /\ RowIdle
    /\ \E nr \in 1..MaxRows, nc \in 1..MaxCols :
         \E p \in 0..Min(MaxPat, nr * nc + 1) : data = Image(nr, nc, p)
    /\ quad \in [1..4 -> BOOLEAN]
    /\ calc_speeds \in BOOLEAN
    /\ processes \in 0..MaxProc
    /\ MainStart("entry")

Spec == Init /\ [][Next]_vars


\* ------------------------- split and reassembly around an identity row map
\* The call with the identity in place of iabel_hansenlaw_transform and no
\* quadrant selected: each AQi is [Qi[row] for row in range(N2)].
IdentityMap ==
    /\ pc = "select"
    /\ AQ0' = TaskRows(Q0, N2)
    /\ AQ1' = TaskRows(Q1, N2)
    /\ AQ2' = TaskRows(Q2, N2)
    /\ AQ3' = TaskRows(Q3, N2)
    /\ pc' = "reform"
    /\ UNCHANGED <<rowAll, data, quad, calc_speeds, processes, pool, created, err,
                   Q0, Q1, Q2, Q3, Q, cur, tasks, pending, running, completed, mapped,
                   recon, speeds, ret>>

NextRT == Split \/ IdentityMap \/ ReformImage

\* Every nr x nc image of pixels 0 and 1
BinImages(nr, nc) ==
    {Arr([i \in 1..nr |-> [j \in 1..nc |-> f[(i - 1) * nc + j]]], nc) :
        f \in [1..(nr * nc) -> 0..1]}

InitRT ==
    /\ coef = CoefTable
    /\ RowIdle
    /\ \E nr \in 1..MaxRows, nc \in 1..MaxCols :
         \/ \E p \in 0..(nr * nc + 1) : data = Image(nr, nc, p)
         \/ nr * nc <= MaxCells /\ data \in BinImages(nr, nc)
    /\ quad = <<FALSE, FALSE, FALSE, FALSE>>
    /\ calc_speeds = FALSE
    /\ processes = 0
    /\ MainStart("split")

SpecRT == InitRT /\ [][NextRT]_vars


\* The statement-by-statement run and the function on whole rows agree.
RowStepsAgree ==
    /\ rpc = "ret" => rout = iabel_hansenlaw_transform(ImgRow).val
    /\ rpc = "error" => ~iabel_hansenlaw_transform(ImgRow).ok

\* ================================================================ claims
Even(x) == x % 2 = 0

Odd(x) == x % 2 = 1

After == {"reform", "speeds", "done"}

\* the rows transformed one after the other, in index order
SeqT(rows) == [i \in 1..Len(rows) |-> iabel_hansenlaw_transform(rows[i]).val]

\* C1: for an image with an even number of rows and of columns, Q0 is the
\* right-top quarter mirrored left-right, Q1 the left-top quarter, Q2 the
\* left-bottom quarter mirrored up-down, Q3 the right-bottom quarter mirrored
\* on both axes; mapping the identity over their rows and reassembling
\* raises nothing and gives back the image pixel for pixel.
C1_RoundTrip ==
    (Even(data.nr) /\ Even(data.nc)) =>
        /\ pc # "error"
        /\ pc \in {"select", "reform", "speeds"} =>
             /\ \A q \in {Q0, Q1, Q2, Q3} :
                    shape(q) = <<data.nr \div 2, data.nc \div 2>>
             /\ \A i \in 1..(data.nr \div 2) : \A j \in 1..(data.nc \div 2) :
                    /\ Q0.a[i][j] = data.a[i][data.nc + 1 - j]
                    /\ Q1.a[i][j] = data.a[i][j]
                    /\ Q2.a[i][j] = data.a[data.nr + 1 - i][j]
                    /\ Q3.a[i][j] = data.a[data.nr + 1 - i][data.nc + 1 - j]
        /\ pc = "speeds" =>
             /\ shape(recon) = shape(data)
             /\ \A i \in 1..data.nr : \A j \in 1..data.nc :
                    recon.a[i][j] = data.a[i][j]

C1_Witness ==
    /\ pc = "speeds"
    /\ shape(data) = <<4, 4>>
    /\ data.a[1][1] = 1 /\ data.a[4][4] = 16
    /\ recon = data
    /\ Q0.a[1] = <<4, 3>> /\ Q3.a[1] = <<16, 15>>

\* C2: whatever rows the workers take and in whatever order they finish,
\* the list pool.map returns holds at index i the transform of input row i:
\* each transformed quadrant equals the sequential map over the rows that
\* were handed to the pool for it.
C2_OrderPreserved ==
    /\ (pc \in After /\ any(quad)) =>
          /\ Len(mapped) = 1
          /\ AQ0 = SeqT(mapped[1])
    /\ (pc \in After /\ ~any(quad)) =>
          /\ Len(mapped) = 4
          /\ AQ0 = SeqT(mapped[1]) /\ AQ1 = SeqT(mapped[2])
          /\ AQ2 = SeqT(mapped[3]) /\ AQ3 = SeqT(mapped[4])
    /\ (pc = "map" /\ cur = "Q1") => AQ0 = SeqT(mapped[1])
    /\ (pc = "map" /\ cur = "Q2") => AQ1 = SeqT(mapped[2])
    /\ (pc = "map" /\ cur = "Q3") => AQ2 = SeqT(mapped[3])

\* three rows, the last finished first and the first last, by two workers
C2_Witness ==
    /\ pc = "reform"
    /\ Len(tasks) = 3
    /\ processes = 2
    /\ completed[1].i = 3 /\ completed[3].i = 1
    /\ AQ0[1] # AQ0[3]
    /\ AQ0[1] = iabel_hansenlaw_transform(tasks[1]).val

\* C3: the call creates one pool and has released it when it ends, on the
\* normal return and on an error.
C3_PoolReleased ==
    pc \in {"done", "error"} => (created <= 1 /\ pool # "open")

\* C4: with a quadrant selected, Q is the selected quadrants' sum, its first
\* N2 rows are the only rows handed to the pool, and AQ0..AQ3 all are the
\* transform of those rows.
C4_CoAdd ==
    (any(quad) /\ pc \in After) =>
        /\ Q = CoAddSum(Q0, Q1, Q2, Q3, quad).val
        /\ (Even(data.nr) /\ Even(data.nc)) =>
              /\ shape(Q) = <<data.nr \div 2, data.nc \div 2>>
              /\ \A i \in 1..Q.nr : \A j \in 1..Q.nc :
                    Q.a[i][j] =
                        (IF quad[1] THEN data.a[i][data.nc + 1 - j] ELSE 0)
                      + (IF quad[2] THEN data.a[i][j] ELSE 0)
                      + (IF quad[3] THEN data.a[data.nr + 1 - i][j] ELSE 0)
                      + (IF quad[4] THEN data.a[data.nr + 1 - i][data.nc + 1 - j]
                                    ELSE 0)
        /\ mapped = <<TaskRows(Q, N2)>>
        /\ AQ0 = SeqT(TaskRows(Q, N2))
        /\ AQ1 = AQ0 /\ AQ2 = AQ0 /\ AQ3 = AQ0

C4_Witness ==
    /\ pc = "done"
    /\ quad = <<TRUE, TRUE, TRUE, FALSE>>
    /\ shape(data) = <<4, 4>>
    /\ data.a[1][1] = 1 /\ data.a[1][2] = 2
    /\ Q.a[1] = <<4 + 1 + 13, 3 + 2 + 14>>
    /\ AQ3 = AQ0 /\ AQ0[1][1] # 0

\* C5 as stated: every image with an even number of rows and of columns
\* comes back with its shape (a pool of at least one worker granted).
C5_ShapeAllEven ==
    (Even(data.nr) /\ Even(data.nc) /\ processes >= 1) =>
        /\ pc # "error"
        /\ pc = "done" => shape(ret.recon) = shape(data)

\* C5, amended: with an even number N >= 2 of rows and an even number
\* M >= 4 of columns, so that every quadrant row has two samples or more,
\* and a pool of at least one worker, the call raises nothing and returns
\* an image of shape (N, M), whatever the selector.
C5_ShapePreserved ==
    (Even(data.nr) /\ Even(data.nc) /\ data.nr >= 2 /\ data.nc >= 4
        /\ processes >= 1) =>
        /\ pc # "error"
        /\ pc \in {"speeds", "done"} => shape(recon) = shape(data)
        /\ pc = "done" => shape(ret.recon) = shape(data)

C5_Witness ==
    /\ pc = "done"
    /\ shape(data) = <<6, 4>>
    /\ ~any(quad)
    /\ shape(ret.recon) = <<6, 4>>
    /\ ret.recon.a[1][1] # 0

\* C6 as stated: calculate_speeds gets the reconstructed image and the
\* quadrant half-size N//2.
C6_SpeedsHalfSize ==
    (pc = "done" /\ calc_speeds) =>
        speeds = [called |-> TRUE, img |-> recon, n |-> data.nr \div 2]

\* C6, amended: with calc_speeds, calculate_speeds is called with the
\* reconstructed image and the number N of image rows, and the pair
\* (recon, speeds) is returned; without it there is no call and recon alone
\* is returned.
C6_SpeedsFullSize ==
    pc = "done" =>
        IF calc_speeds
        THEN /\ speeds = [called |-> TRUE, img |-> recon, n |-> data.nr]
             /\ ret = [pair |-> TRUE, recon |-> recon]
        ELSE /\ speeds = NoCall
             /\ ret = [pair |-> FALSE, recon |-> recon]

C6_Witness ==
    /\ pc = "done"
    /\ calc_speeds
    /\ shape(data) = <<4, 4>>
    /\ speeds.called /\ speeds.n = 4 /\ speeds.img = recon
    /\ ret.pair

\* C7: for a row of N >= 2 samples the returned row has N elements and its
\* last element equals the one before it; so does AImgRow before negation.
C7_BoundaryDup ==
    Len(ImgRow) >= 2 =>
        /\ rpc = "neg" => AImgRow[N] = AImgRow[N - 1]
        /\ rpc = "ret" =>
             /\ Len(rout) = Len(ImgRow)
             /\ rout[Len(ImgRow)] = rout[Len(ImgRow) - 1]

C7_Witness ==
    /\ rpc = "ret"
    /\ Len(ImgRow) = 4
    /\ rout[4] = rout[3]
    /\ rout[4] # 0 /\ rout[3] # rout[2]

\* C8: on a row of N >= 2 zeros the gradient is zero, every accumulator is
\* zero after every step of the loop, and the returned row is N zeros.
C8_ZeroRow ==
    (Len(ImgRow) >= 2 /\ \A i \in 1..Len(ImgRow) : ImgRow[i] = 0) =>
        /\ rpc # "error"
        /\ rpc \in {"loop", "k", "neg", "ret"} =>
             /\ \A i \in 1..N : gp[i] = 0
             /\ \A kk \in 1..K : X[kk] = 0
             /\ \A i \in 1..N : AImgRow[i] = 0
        /\ rpc = "ret" => rout = Zeros(Len(ImgRow))

C8_Witness ==
    /\ rpc = "ret"
    /\ ImgRow = <<0, 0, 0>>
    /\ rout = <<0, 0, 0>>
    /\ n = 2 /\ k = K

\* C9 as stated: an image with an odd number of rows or of columns raises
\* no error, in either mode (a pool of at least one worker granted).
C9_OddNoError ==
    ((Odd(data.nr) \/ Odd(data.nc)) /\ processes >= 1) => pc # "error"

\* C9, amended: for an image with an odd number of rows or of columns and a
\* pool of at least one worker, (a) with no quadrant selected, N >= 2 rows
\* and M >= 4 columns, the call raises nothing and returns an image of shape
\* (2*(N//2), M); (b) with a quadrant selected and an odd dimension of 5 or
\* more, the sum of the differently shaped quadrants raises ValueError and
\* nothing is handed to the pool.
C9_OddBehaviour ==
    ((Odd(data.nr) \/ Odd(data.nc)) /\ processes >= 1) =>
        /\ (~any(quad) /\ data.nr >= 2 /\ data.nc >= 4) =>
              /\ pc # "error"
              /\ pc = "done" =>
                    shape(ret.recon) = <<2 * (data.nr \div 2), data.nc>>
        /\ (any(quad) /\ ((Odd(data.nr) /\ data.nr >= 5)
                            \/ (Odd(data.nc) /\ data.nc >= 5))) =>
              /\ pc \in {"entry", "split", "select", "error"}
              /\ pc = "error" => (err = "ValueError" /\ mapped = <<>>)

C9_Witness ==
    /\ pc = "done"
    /\ ~any(quad)
    /\ shape(data) = <<5, 5>>
    /\ shape(ret.recon) = <<4, 5>>

\* C10: for a row of N >= 2 samples, at every loop index n in 0..N-2 the
\* denominator N-n-1 is at least 1 and 1 < Nm <= 2, nothing raises; the
\* branch of Gamma that divides by pi*lam is taken exactly for lam[1..8],
\* all below -1, and lam[0] = 0 takes the logarithm of Nm > 0.
C10_Domain ==
    Len(ImgRow) >= 2 =>
        /\ rpc # "error"
        /\ rpc = "k" =>
             /\ n \in 0..(N - 2)
             /\ Nm = <<N - n, N - n - 1>>
             /\ Nm[2] >= 1
             /\ Nm[2] < Nm[1] /\ Nm[1] <= 2 * Nm[2]
             /\ k >= 1 =>
                  /\ br = (IF k = 1 THEN "log" ELSE "div")
                  /\ br = "div" => (lam[k] < -10 /\ GammaDivisor(lam[k]) # 0)
                  /\ br = "log" => (lam[k] = 0 /\ Nm[1] > 0 /\ Nm[2] > 0)

C10_Witness ==
    /\ rpc = "k"
    /\ N = 4 /\ n = 2 /\ k = K
    /\ Nm = <<2, 1>>
    /\ br = "div"

====
